---------------------------- MODULE Spec2Model ----------------------------
(***************************************************************************)
(* A model of the OAuth / emote relay of src/server.js.                    *)
(*                                                                         *)
(* src/server.js holds two variants of the relay one after the other:      *)
(* variant "A" (lines 1-180: /proxy/emote, /oauth/exchange with a          *)
(* credentials check) and variant "B" (lines 182-474: /proxy/emote,        *)
(* /oauth/exchange without the check, /get-kick-user).  A process runs one *)
(* of them; Init picks which.                                              *)
(*                                                                         *)
(* A handler is an async function.  The server runs one handler per        *)
(* request in flight, and the handlers interleave at their awaits.  The    *)
(* position (pc) of a handler is the await it is suspended at: the fetch   *)
(* of a response ("..._fetch") or the read of that response's body         *)
(* ("..._body").  One action takes a handler from the settling of one      *)
(* await to the next await or to the response it sends.  What an await     *)
(* settles with is chosen by the upstream.                                 *)
(*                                                                         *)
(* JavaScript values: Undefined and Null are the two sentinel strings      *)
(* below; an object is a record; res.json drops the keys whose value is    *)
(* undefined (JSON.stringify), which Stringify models.  A URL is the       *)
(* sequence of its host and path segments, and String.includes on URLs is  *)
(* containment of a contiguous run of segments.                            *)
(***************************************************************************)
EXTENDS Integers, Sequences, FiniteSets, TLC

VARIABLES
    variant,        \* "A" or "B": which of the two programs of server.js runs
    CLIENT_ID,      \* TRUE iff the client id is configured (truthy)
    CLIENT_SECRET,  \* TRUE iff the client secret is configured (truthy)
    api_base,       \* SERVER_OAUTH_CONFIG.OAUTH_SETTINGS.api_base (variant B)
    handler         \* handler[r]: the frame of the handler serving request r

config == << variant, CLIENT_ID, CLIENT_SECRET, api_base >>
vars == << variant, CLIENT_ID, CLIENT_SECRET, api_base, handler >>

\* the requests that can be in flight at the same time
Reqs == {"r1", "r2"}

-----------------------------------------------------------------------------
(* JavaScript values *)

Undefined == "<undefined>"
Null == "<null>"

\* !x for the values a request field takes here: undefined, "" and null are falsy
Falsy(x) == x \in {Undefined, Null, ""}

\* JSON.stringify of a flat object: keys whose value is undefined are dropped
Stringify(o) == [k \in {f \in DOMAIN o : o[f] # Undefined} |-> o[k]]

\* String.prototype.includes on texts given as sequences of their parts
Includes(url, pat) ==
    \E i \in 1..(Len(url) - Len(pat) + 1) : SubSeq(url, i, i + Len(pat) - 1) = pat

-----------------------------------------------------------------------------
(* Responses sent to the caller *)

\* the headers set on res so far
NoHeaders == [contentType |-> Undefined, cacheControl |-> Undefined]

JSON_TYPE == "application/json; charset=utf-8"

\* res.send of a string body adds the charset to a Content-Type set before
WithCharset(type) ==
    IF type = "image/png" THEN "image/png; charset=utf-8"
    ELSE IF type = "image/gif" THEN "image/gif; charset=utf-8"
    ELSE type

\* res.status(s).json(b): res.json sets the JSON Content-Type only when none
\* is set; the headers set before (hdr) stay
JsonResponse(s, kind, b, hdr) ==
    [status |-> s, kind |-> kind,
     contentType |-> IF hdr.contentType = Undefined THEN JSON_TYPE
                     ELSE WithCharset(hdr.contentType),
     cacheControl |-> hdr.cacheControl, body |-> b]

\* an error body { error, details }
ErrorBody(error, details) == Stringify([error |-> error, details |-> details])

-----------------------------------------------------------------------------
(* What the upstream settles an await with *)

\* await fetch(...):
\*   kind "throw"  fetch rejects (transport error)
\*        "notok"  a response whose status is not 2xx
\*        "ok"     a response whose status is 2xx
\*   ctype         the content-type header (Null when absent)
Answer(kind, status, ctype) == [kind |-> kind, status |-> status, ctype |-> ctype]

\* await response.text() / .json() / .arrayBuffer():
\*   read "ok" the read resolves, "throw" it rejects (for json(): no JSON)
\*   shape, obj    the body read
Body(read, shape, obj) == [read |-> read, shape |-> shape, obj |-> obj]

NoAnswer == Answer("none", 0, Null)
NoBody == Body("none", "none", Undefined)

\* outbound events of a request: a call issued, and a call over (its fetch
\* rejected, or its response dealt with)
CallEv(target, k) == [ev |-> "call", target |-> target, k |-> k]
DoneEv(target, k) == [ev |-> "done", target |-> target, k |-> k]

NoError == [text |-> "", status |-> 0, info |-> ""]
NoUser == [user_id |-> Undefined, name |-> Undefined, email |-> Undefined,
           profile_picture |-> Undefined]

\* the frame of a handler: the request, the locals, the headers set on res,
\* the outbound events and the responses sent.  response and data are the
\* upstream answer awaited last: the response fetch resolved with (or its
\* rejection) and the body read from it
IdleFrame ==
    [pc |-> "idle", body |-> [none |-> Undefined], idx |-> 0, lastError |-> NoError,
     user |-> NoUser, response |-> NoAnswer, data |-> NoBody, hdr |-> NoHeaders,
     trace |-> << >>, responses |-> << >>]

\* res.json / res.send, after which the handler returns: the loop's locals
\* are gone; the request, the last upstream answer (response, data), the
\* outbound events and the response sent stay on record until Close
Reply(f, reply) ==
    [f EXCEPT !.responses = Append(@, reply), !.pc = "responded",
              !.idx = 0, !.lastError = NoError, !.user = NoUser]

-----------------------------------------------------------------------------
(* Configuration *)

\* function isConfigValid() { return CLIENT_ID && CLIENT_SECRET; }
isConfigValid == CLIENT_ID /\ CLIENT_SECRET

\* variant A checks the credentials before the token call; variant B's
\* handler goes from the field validation straight to fetch
ChecksConfig(v) == v = "A"

-----------------------------------------------------------------------------
(* GET /proxy/emote/:emoteId *)

EmoteIds == {"37226"}

EmoteContentTypes == {Null, "", "image/png"}

EmoteAnswers ==
    {Answer("throw", 0, Null)}
    \cup {Answer("notok", s, Null) : s \in {404, 500}}
    \cup {Answer("ok", 200, c) : c \in EmoteContentTypes}

EmoteBodies == {Body("ok", "bytes", Undefined), Body("throw", "none", Undefined)}

\* response.headers.get('content-type') || 'image/gif'
EmoteContentTypeAlways(ctype) == ctype
EmoteContentType(ctype) == IF Falsy(ctype) THEN "image/gif" ELSE ctype

CACHE_CONTROL == "public, max-age=3600"

\* await fetch(emoteUrl) settles
EmoteAfterFetch(f, head) ==
    LET g == [f EXCEPT !.response = head] IN
    IF head.kind = "throw" THEN
        \* catch: res.status(500).json({ error: 'Internal server error' })
        Reply([g EXCEPT !.trace = Append(@, DoneEv("emote", 0))],
              JsonResponse(500, "error", ErrorBody("Internal server error", Undefined), f.hdr))
    ELSE IF head.kind = "notok" THEN
        \* return res.status(response.status).json({ error: 'Failed to fetch emote' })
        Reply([g EXCEPT !.trace = Append(@, DoneEv("emote", 0))],
              JsonResponse(head.status, "error",
                           ErrorBody("Failed to fetch emote", Undefined), f.hdr))
    ELSE
        \* res.set({...}); then await response.arrayBuffer()
        [g EXCEPT !.hdr = [contentType |-> EmoteContentType(head.ctype),
                           cacheControl |-> CACHE_CONTROL],
                  !.pc = "emote_body"]

\* await response.arrayBuffer() settles
EmoteAfterBody(f, data) ==
    LET g == [f EXCEPT !.data = data,
                       !.trace = Append(@, DoneEv("emote", 0))] IN
    IF data.read = "throw" THEN
        \* the catch sends the 500 JSON body under the headers set before
        Reply(g, JsonResponse(500, "error",
                              ErrorBody("Internal server error", Undefined), f.hdr))
    ELSE
        \* res.send(Buffer.from(buffer))
        Reply(g, [status |-> 200, kind |-> "binary", contentType |-> f.hdr.contentType,
                  cacheControl |-> f.hdr.cacheControl, body |-> "bytes"])

EmoteRequest(r) ==
    /\ handler[r].pc = "idle"
    /\ \E id \in EmoteIds :
         handler' = [handler EXCEPT ![r] =
                        [@ EXCEPT !.body = [emoteId |-> id],
                                  !.trace = << CallEv("emote", 0) >>,
                                  !.pc = "emote_fetch"]]
    /\ UNCHANGED config

EmoteFetchSettled(r) ==
    /\ handler[r].pc = "emote_fetch"
    /\ \E head \in EmoteAnswers :
         handler' = [handler EXCEPT ![r] = EmoteAfterFetch(@, head)]
    /\ UNCHANGED config

EmoteBodySettled(r) ==
    /\ handler[r].pc = "emote_body"
    /\ \E data \in EmoteBodies :
         handler' = [handler EXCEPT ![r] = EmoteAfterBody(@, data)]
    /\ UNCHANGED config

-----------------------------------------------------------------------------
(* POST /oauth/exchange *)

FieldValues == {Undefined, "", "v"}

FullBody == [code |-> "v", redirect_uri |-> "v", code_verifier |-> "v"]

\* the request bodies: complete, one field absent or empty, every field absent
ExchangeBodies ==
    {FullBody}
    \cup {[FullBody EXCEPT ![x] = v] : x \in DOMAIN FullBody, v \in FieldValues \ {"v"}}
    \cup {[x \in DOMAIN FullBody |-> Undefined]}

\* if (!code || !redirect_uri || !code_verifier)
MissingParamsAll(b) ==
    Falsy(b.code) /\ Falsy(b.redirect_uri) /\ Falsy(b.code_verifier)
MissingParams(b) ==
    Falsy(b.code) \/ Falsy(b.redirect_uri) \/ Falsy(b.code_verifier)

TokenValue(f) ==
    IF f = "access_token" THEN "tokA"
    ELSE IF f = "token_type" THEN "Bearer"
    ELSE IF f = "expires_in" THEN "3600"
    ELSE IF f = "scope" THEN "user:read"
    ELSE "refresh-secret"

\* the properties of the JSON objects the token endpoint answers with
TokenFieldSets ==
    { {"access_token", "token_type", "expires_in", "scope", "refresh_token"},
      {"access_token", "token_type", "expires_in", "refresh_token"},
      {"access_token", "token_type", "expires_in", "scope"},
      {"access_token", "refresh_token"},
      {} }

TokenDatas == {[f \in present |-> TokenValue(f)] : present \in TokenFieldSets}

TokenAnswers ==
    {Answer("throw", 0, Null)}
    \cup {Answer("notok", s, Null) : s \in {400, 401}}
    \cup {Answer("ok", 200, "application/json")}

\* tokenResponse.text() after a non-success status, tokenResponse.json() else;
\* either read can reject (the body cannot be read), and json() also rejects
\* on a body that is not JSON
TokenBodies(head) ==
    IF head.kind = "notok"
    THEN {Body("ok", "text", Undefined), Body("throw", "none", Undefined)}
    ELSE {Body("throw", "none", Undefined), Body("throw", "badjson", Undefined),
          Body("ok", "null", Undefined)}
         \cup {Body("ok", "object", d) : d \in TokenDatas}

\* error.message of a rejected text() / json() / arrayBuffer()
ReadError(data) ==
    IF data.shape = "badjson" THEN "Unexpected token in JSON" ELSE "body read failed"

\* tokenData.f: undefined when the property is absent
Prop(o, f) == IF f \in DOMAIN o THEN o[f] ELSE Undefined

\* the object handed to res.json on success
TokenResultAll(v, tokenData) == tokenData
TokenResult(v, tokenData) ==
    IF v = "A"
    THEN [access_token |-> Prop(tokenData, "access_token"),
          token_type |-> Prop(tokenData, "token_type"),
          expires_in |-> Prop(tokenData, "expires_in")]
    ELSE [access_token |-> Prop(tokenData, "access_token"),
          token_type |-> Prop(tokenData, "token_type"),
          expires_in |-> Prop(tokenData, "expires_in"),
          scope |-> Prop(tokenData, "scope")]

\* the catch block's body: variant B adds details: error.message
ExchangeCatchBody(v, message) ==
    ErrorBody("Internal server error", IF v = "B" THEN message ELSE Undefined)

\* the handler up to its first await
ExchangeStart(f, b) ==
    LET g == [f EXCEPT !.body = b] IN
    IF MissingParams(b) THEN
        Reply(g, JsonResponse(400, "error",
                 ErrorBody("Missing required parameters: code, redirect_uri, code_verifier",
                           Undefined), f.hdr))
    ELSE IF ChecksConfig(variant) /\ ~isConfigValid THEN
        Reply(g, JsonResponse(500, "error",
                 ErrorBody("Server configuration error - missing credentials", Undefined),
                 f.hdr))
    ELSE [g EXCEPT !.trace = << CallEv("token", 0) >>, !.pc = "token_fetch"]

\* await fetch(token_url, ...) settles
ExchangeAfterFetch(f, head) ==
    LET g == [f EXCEPT !.response = head] IN
    IF head.kind = "throw" THEN
        Reply([g EXCEPT !.trace = Append(@, DoneEv("token", 0))],
              JsonResponse(500, "error", ExchangeCatchBody(variant, "fetch failed"), f.hdr))
    ELSE [g EXCEPT !.pc = "token_body"]

\* await tokenResponse.text() / tokenResponse.json() settles
ExchangeAfterBody(f, data) ==
    LET g == [f EXCEPT !.data = data,
                       !.trace = Append(@, DoneEv("token", 0))] IN
    IF f.response.kind = "notok" THEN
        IF data.read = "throw"
        THEN Reply(g, JsonResponse(500, "error",
                          ExchangeCatchBody(variant, ReadError(data)), f.hdr))
        ELSE Reply(g, JsonResponse(f.response.status, "error",
                          ErrorBody("Token exchange failed", "upstream error text"), f.hdr))
    ELSE IF data.read = "throw" THEN
        Reply(g, JsonResponse(500, "error",
                     ExchangeCatchBody(variant, ReadError(data)), f.hdr))
    ELSE IF data.shape = "null" THEN
        \* tokenData.access_token on null throws a TypeError
        Reply(g, JsonResponse(500, "error",
                     ExchangeCatchBody(variant,
                        "Cannot read properties of null (reading 'access_token')"), f.hdr))
    ELSE Reply(g, JsonResponse(200, "token",
                     Stringify(TokenResult(variant, data.obj)), f.hdr))

ExchangeRequest(r) ==
    /\ handler[r].pc = "idle"
    /\ \E b \in ExchangeBodies :
         handler' = [handler EXCEPT ![r] = ExchangeStart(@, b)]
    /\ UNCHANGED config

TokenFetchSettled(r) ==
    /\ handler[r].pc = "token_fetch"
    /\ \E head \in TokenAnswers :
         handler' = [handler EXCEPT ![r] = ExchangeAfterFetch(@, head)]
    /\ UNCHANGED config

TokenBodySettled(r) ==
    /\ handler[r].pc = "token_body"
    /\ \E data \in TokenBodies(handler[r].response) :
         handler' = [handler EXCEPT ![r] = ExchangeAfterBody(@, data)]
    /\ UNCHANGED config

-----------------------------------------------------------------------------
(* POST /get-kick-user (variant B) *)

AccessTokens == {Undefined, "", "tok"}

\* 'api.kick.com/public/v1/users'
NEW_API == << "api.kick.com", "public", "v1", "users" >>

\* const endpoints = [ ... ]
endpoints(base) ==
    << << "api.kick.com", "public", "v1", "users" >>,
       base \o << "user" >>,
       << "kick.com", "api", "v1", "user" >>,
       << "kick.com", "api", "v2", "user", "me" >>,
       << "kick.com", "api", "v1", "user", "me" >> >>

\* endpoint.includes('api.kick.com/public/v1/users')
IsNewApiAlways(endpoint) == TRUE
IsNewApi(endpoint) == Includes(endpoint, NEW_API)

\* the content types the upstream answers with: none, an HTML page, JSON
UserContentTypes == {Null, "text/html", "application/json; charset=utf-8"}

\* 'application/json'
JSON_MEDIA == << "application", "/", "json" >>

\* the text of a content-type value, as the sequence of its parts; the values
\* listed are the ones the model handles
MediaText(ctype) ==
    CASE ctype = "application/json" -> << "application", "/", "json" >>
      [] ctype = "application/json; charset=utf-8" ->
            << "application", "/", "json", ";", " ", "charset=utf-8" >>
      [] ctype = "application/problem+json" -> << "application", "/", "problem", "+", "json" >>
      [] ctype = "text/json" -> << "text", "/", "json" >>
      [] ctype = "text/html" -> << "text", "/", "html" >>
      [] ctype = "text/html; charset=utf-8" ->
            << "text", "/", "html", ";", " ", "charset=utf-8" >>
      [] ctype = "text/plain" -> << "text", "/", "plain" >>

\* !contentType || !contentType.includes('application/json') is false
IsJsonType(ctype) == (~Falsy(ctype)) /\ Includes(MediaText(ctype), JSON_MEDIA)

Users ==
    { [user_id |-> "u1", name |-> "alice", email |-> "a@x.io", profile_picture |-> "pic"],
      [user_id |-> "u1", name |-> "alice", email |-> Undefined, profile_picture |-> Undefined] }

\* the JSON bodies a user endpoint answers with:
\*   "null"      null
\*   "nodata"    an object without data
\*   "emptyArr"  { data: [] }
\*   "arrNull"   { data: [null] }
\*   "arrUser"   { data: [user] }
UserShapes == {"null", "nodata", "emptyArr", "arrNull"}

UserAnswers ==
    {Answer("throw", 0, Null)}
    \cup {Answer("notok", 401, Null)}
    \cup {Answer("ok", 200, c) : c \in UserContentTypes}

\* response.text() after a non-success status or a content type that is not
\* JSON, response.json() else; either read can reject (the body cannot be
\* read), and json() also rejects on a body that is not JSON
UserBodies(head) ==
    IF head.kind = "notok" \/ ~IsJsonType(head.ctype)
    THEN {Body("ok", "text", NoUser), Body("throw", "none", NoUser)}
    ELSE {Body("throw", "none", NoUser), Body("throw", "badjson", NoUser)}
         \cup {Body("ok", s, NoUser) : s \in UserShapes}
         \cup {Body("ok", "arrUser", u) : u \in Users}

Err(text, status, info) == [text |-> text, status |-> status, info |-> info]

\* the error a rejected candidate leaves: what lastError is assigned
FailureOf(head, data) ==
    IF head.kind = "throw" THEN Err("fetch failed", 0, "")
    ELSE IF data.read = "throw" THEN Err(ReadError(data), 0, "")
    ELSE IF head.kind = "notok" THEN
        \* new Error(`API request failed: ${response.status} - ${errorText}`)
        Err("API request failed: ", head.status, "upstream error text")
    ELSE IF ~IsJsonType(head.ctype) THEN
        \* new Error(`Expected JSON response but got: ${contentType}`)
        Err("Expected JSON response but got: ", 0, head.ctype)
    ELSE IF data.shape = "null" THEN
        Err("Cannot read properties of null (reading 'data')", 0, "")
    ELSE Err("Cannot read properties of null (reading 'name')", 0, "")

\* lastError = ...
KeepFirstError(prev, err) == IF prev = NoError THEN err ELSE prev
SetLastError(prev, err) == err

\* the for-of loop moves to the next endpoint
NextCandidateRetry(i) == i
NextCandidate(i) == i + 1

\* what the loop body does with a candidate's response and body:
\*   "continue"  the candidate is dropped and the next one is tried
\*   "channel"   the channel-info lookup is issued for data[0]
\*   "reply"     return res.json(userData)
UserStep(endpoint, head, data) ==
    IF head.kind # "ok" \/ ~IsJsonType(head.ctype) \/ data.read = "throw" THEN "continue"
    ELSE IF IsNewApi(endpoint) THEN
        \* userData.data on null, and user.name on a null first element, throw
        \* a TypeError inside the loop's try: the catch tries the next endpoint
        IF data.shape \in {"null", "arrNull"} THEN "continue"
        ELSE IF data.shape = "arrUser" THEN "channel"
        ELSE "reply"
    ELSE "reply"

\* res.json(userData): the payload as received
RawReply(f, data) ==
    JsonResponse(200, "user_raw", [shape |-> data.shape, obj |-> data.obj], f.hdr)

\* catch (error): res.status(500).json({ error, details: error.message })
ExhaustedReply(f, err) ==
    JsonResponse(500, "error", [error |-> "Internal server error", details |-> err], f.hdr)

\* continue: the candidate (response head, body data) is over; lastError is
\* set and the loop fetches the next endpoint, or ends and throws lastError
Continue(f, head, data) ==
    LET i == NextCandidate(f.idx)
        err == SetLastError(f.lastError, FailureOf(head, data))
        g == [f EXCEPT !.response = head, !.data = data, !.lastError = err, !.idx = i,
                       !.trace = Append(@, DoneEv("user", f.idx))]
    IN  IF i > Len(endpoints(api_base))
        THEN Reply(g, ExhaustedReply(f, err))
        ELSE [g EXCEPT !.trace = Append(@, CallEv("user", i)), !.pc = "user_fetch"]

\* the handler up to its first await
UserStart(f, t) ==
    LET g == [f EXCEPT !.body = [access_token |-> t]] IN
    IF Falsy(t) THEN
        Reply(g, JsonResponse(400, "error",
                    ErrorBody("Missing required parameter: access_token", Undefined), f.hdr))
    ELSE [g EXCEPT !.idx = 1, !.trace = << CallEv("user", 1) >>, !.pc = "user_fetch"]

\* await fetch(endpoint, ...) settles
UserAfterFetch(f, head) ==
    IF head.kind = "throw" THEN Continue(f, head, NoBody)
    ELSE [f EXCEPT !.response = head, !.data = NoBody, !.pc = "user_body"]

\* await response.text() / response.json() settles
UserAfterBody(f, data) ==
    LET step == UserStep(endpoints(api_base)[f.idx], f.response, data)
        g == [f EXCEPT !.data = data,
                       !.trace = Append(@, DoneEv("user", f.idx))]
    IN  IF step = "continue" THEN Continue(f, f.response, data)
        ELSE IF step = "channel" THEN
            \* const user = userData.data[0]; fetch(`.../channels/${user.name}`)
            [g EXCEPT !.user = data.obj, !.trace = Append(@, CallEv("channel", 0)),
                      !.pc = "channel_fetch"]
        ELSE Reply(g, RawReply(f, data))

ChatroomIds == {"c42"}

ChannelAnswers ==
    {Answer("throw", 0, Null), Answer("notok", 404, Null), Answer("ok", 200, "application/json")}

\* the bodies of the channel-info endpoint:
\*   "none"          the body cannot be read: channelResponse.json() rejects
\*   "badjson"       no JSON: channelResponse.json() rejects
\*   "null"          null
\*   "nochatroom"    {}
\*   "chatroomNull"  { chatroom: null }
\*   "noid"          { chatroom: {} }
\*   "idNull"        { chatroom: { id: null } }
\*   "id"            { chatroom: { id: obj } }
ChannelBodies ==
    {Body("throw", "none", Undefined), Body("throw", "badjson", Undefined)}
    \cup {Body("ok", s, Undefined) : s \in {"null", "nochatroom", "chatroomNull", "noid"}}
    \cup {Body("ok", "idNull", Null)}
    \cup {Body("ok", "id", c) : c \in ChatroomIds}

\* let chatroomId = null; try { if (channelResponse.ok) {
\*   chatroomId = channelData.chatroom?.id } } catch {}
\* a rejected fetch, a non-success status, a body that does not parse and a
\* null body (channelData.chatroom throws) leave the initial null; a body
\* without chatroom or without chatroom.id assigns undefined
ChatroomId(head, data) ==
    IF head.kind # "ok" \/ data.read = "throw" \/ data.shape = "null" THEN Null
    ELSE IF data.shape \in {"nochatroom", "chatroomNull", "noid"} THEN Undefined
    ELSE data.obj

\* res.json({ id, username, email, profile_picture, chatroom: { id: chatroomId } })
NormalizedBody(u, chatroomId) ==
    LET flat == Stringify([id |-> u.user_id, username |-> u.name, email |-> u.email,
                           profile_picture |-> u.profile_picture])
    IN  [k \in DOMAIN flat \cup {"chatroom"} |->
            IF k = "chatroom" THEN Stringify([id |-> chatroomId]) ELSE flat[k]]

NormalizedReply(f, head, data) ==
    JsonResponse(200, "user_norm", NormalizedBody(f.user, ChatroomId(head, data)), f.hdr)

\* await fetch(`https://kick.com/api/v1/channels/${user.name}`) settles
ChannelAfterFetch(f, head) ==
    LET g == [f EXCEPT !.response = head, !.data = NoBody] IN
    IF head.kind = "ok" THEN [g EXCEPT !.pc = "channel_body"]
    ELSE Reply([g EXCEPT !.trace = Append(@, DoneEv("channel", 0))],
               NormalizedReply(f, head, NoBody))

\* await channelResponse.json() settles
ChannelAfterBody(f, data) ==
    Reply([f EXCEPT !.data = data,
                    !.trace = Append(@, DoneEv("channel", 0))],
          NormalizedReply(f, f.response, data))

UserRequest(r) ==
    /\ handler[r].pc = "idle"
    /\ variant = "B"
    /\ \E t \in AccessTokens :
         handler' = [handler EXCEPT ![r] = UserStart(@, t)]
    /\ UNCHANGED config

UserFetchSettled(r) ==
    /\ handler[r].pc = "user_fetch"
    /\ \E head \in UserAnswers :
         handler' = [handler EXCEPT ![r] = UserAfterFetch(@, head)]
    /\ UNCHANGED config

UserBodySettled(r) ==
    /\ handler[r].pc = "user_body"
    /\ \E data \in UserBodies(handler[r].response) :
         handler' = [handler EXCEPT ![r] = UserAfterBody(@, data)]
    /\ UNCHANGED config

ChannelFetchSettled(r) ==
    /\ handler[r].pc = "channel_fetch"
    /\ \E head \in ChannelAnswers :
         handler' = [handler EXCEPT ![r] = ChannelAfterFetch(@, head)]
    /\ UNCHANGED config

ChannelBodySettled(r) ==
    /\ handler[r].pc = "channel_body"
    /\ \E data \in ChannelBodies :
         handler' = [handler EXCEPT ![r] = ChannelAfterBody(@, data)]
    /\ UNCHANGED config

-----------------------------------------------------------------------------
(* The request is over: the handler's frame is gone *)

Close(r) ==
    /\ handler[r].pc = "responded"
    /\ handler' = [handler EXCEPT ![r] = IdleFrame]
    /\ UNCHANGED config

-----------------------------------------------------------------------------

\* the configured API base: `${api_base}/user` is the second candidate
ApiBases == { << "api.kick.com", "public", "v1" >> }

\* the credentials at startup: << client id set, client secret set >>.
\* Variant A reads both from the environment and tests them in isConfigValid;
\* variant B's handlers only pass them on in the token request and never test
\* them, so for it one complete and one incomplete setting are taken
Credentials(v) ==
    IF ChecksConfig(v) THEN BOOLEAN \X BOOLEAN
    ELSE { << TRUE, TRUE >>, << TRUE, FALSE >> }

Init ==
    /\ variant \in {"A", "B"}
    /\ \E c \in Credentials(variant) : CLIENT_ID = c[1] /\ CLIENT_SECRET = c[2]
    /\ api_base \in (IF variant = "B" THEN ApiBases ELSE {<< >>})
    /\ handler = [r \in Reqs |-> IdleFrame]

\* an await of the handler of r settles
Settle(r) ==
    \/ EmoteFetchSettled(r)
    \/ EmoteBodySettled(r)
    \/ TokenFetchSettled(r)
    \/ TokenBodySettled(r)
    \/ UserFetchSettled(r)
    \/ UserBodySettled(r)
    \/ ChannelFetchSettled(r)
    \/ ChannelBodySettled(r)

Next ==
    \E r \in Reqs :
        \/ EmoteRequest(r)
        \/ ExchangeRequest(r)
        \/ UserRequest(r)
        \/ Settle(r)
        \/ Close(r)

Spec == Init /\ [][Next]_vars

\* every outbound call and every body read eventually completes or fails
FairSpec == Spec /\ \A r \in Reqs : WF_vars(Settle(r))

-----------------------------------------------------------------------------
(* What the properties below read off a handler's frame f *)

IsExchange(f) == "code" \in DOMAIN f.body
IsUserLookup(f) == "access_token" \in DOMAIN f.body
IsEmote(f) == "emoteId" \in DOMAIN f.body

Candidates == 1..Len(endpoints(api_base))

\* positions of the trace where a call is issued
Calls(f) == {j \in 1..Len(f.trace) : f.trace[j].ev = "call"}

\* positions of the trace where candidate k is called
CallsOf(f, k) == {j \in Calls(f) : f.trace[j] = CallEv("user", k)}

\* positions of the trace where candidate k is over
DonesOf(f, k) == {j \in 1..Len(f.trace) : f.trace[j] = DoneEv("user", k)}

ChannelCalls(f) == {j \in Calls(f) : f.trace[j] = CallEv("channel", 0)}

\* the last outbound event of the request
LastEv(f) == f.trace[Len(f.trace)]

Responded(f) == f.pc = "responded"

\* an upstream answer with a success status and a JSON body
Accepted(head, data) ==
    head.kind = "ok" /\ IsJsonType(head.ctype) /\ data.read = "ok"

InFlight(f) == f.pc \notin {"idle", "responded"}

-----------------------------------------------------------------------------
(* C1: the candidates of the user lookup are called in list order, one at a *)
(* time, each at most once, a candidate only after the one before it is     *)
(* over and was rejected, and none after a candidate that returned a        *)
(* success status with a JSON body.  (When a candidate has just been        *)
(* called, response and data are the answer of the one before it.)          *)
(* The code breaks this when the first endpoint answers null or             *)
(* {data:[null]}.                                                           *)
C1_FallbackOrder ==
    \A r \in Reqs : LET f == handler[r] IN
        IsUserLookup(f) =>
            /\ \A j \in 1..Len(f.trace) :
                  (f.trace[j].ev = "call" /\ f.trace[j].target = "user") =>
                      /\ f.trace[j].k =
                            Cardinality({i \in 1..j : f.trace[i].ev = "call"
                                                       /\ f.trace[i].target = "user"})
                      /\ f.trace[j].k > 1 => f.trace[j - 1] = DoneEv("user", f.trace[j].k - 1)
            /\ (f.trace # << >> /\ LastEv(f).ev = "call" /\ LastEv(f).target = "user"
                    /\ LastEv(f).k > 1) =>
                  ~Accepted(f.response, f.data)

(* C2: when every candidate fails (status, content type or throw), the      *)
(* response is 500 and its message is the failure of the last candidate.    *)
C2_LastFailure ==
    \A r \in Reqs : LET f == handler[r] IN
        (/\ IsUserLookup(f) /\ Responded(f)
         /\ \A k \in Candidates : DonesOf(f, k) # {}
         /\ ~Accepted(f.response, f.data)) =>
            /\ Len(f.responses) = 1
            /\ f.responses[1].status = 500
            /\ f.responses[1].body.details = FailureOf(f.response, f.data)

C2_Witness ==
    \E r \in Reqs : LET f == handler[r] IN
        /\ IsUserLookup(f) /\ Responded(f)
        /\ \A k \in Candidates : DonesOf(f, k) # {}
        /\ f.response.kind = "ok" /\ IsJsonType(f.response.ctype)
        /\ f.data.read = "throw" /\ f.data.shape = "none"
        /\ f.responses[1].status = 500
        /\ f.responses[1].body.details.text = "body read failed"

(* C3: when the first endpoint answers with a non-empty array under data,   *)
(* no further candidate is tried (the channel-info lookup comes next) and   *)
(* the response is 200 in the normalized shape; when the channel-info       *)
(* lookup fails, chatroom.id is null.                                       *)
(* The code breaks this for {data:[null]} (the defect of C1).               *)
C3_NormalizedOnNewApi ==
    \A r \in Reqs : LET f == handler[r] IN
        IsUserLookup(f) =>
            /\ (/\ f.pc \in {"user_fetch", "channel_fetch"}
                /\ Len(f.trace) = 3
                /\ Accepted(f.response, f.data)
                /\ f.data.shape \in {"arrUser", "arrNull"}) =>
                    f.trace[3] = CallEv("channel", 0)
            /\ (Responded(f) /\ ChannelCalls(f) # {}) =>
                  /\ \A k \in Candidates \ {1} : CallsOf(f, k) = {}
                  /\ Len(f.responses) = 1
                  /\ f.responses[1].status = 200
                  /\ f.responses[1].kind = "user_norm"
                  /\ {"id", "username", "chatroom"} \subseteq DOMAIN f.responses[1].body
                  /\ DOMAIN f.responses[1].body \subseteq
                        {"id", "username", "email", "profile_picture", "chatroom"}
                  /\ f.response.kind # "ok" =>
                        /\ "id" \in DOMAIN f.responses[1].body.chatroom
                        /\ f.responses[1].body.chatroom.id = Null

(* C4: an exchange request with code, redirect_uri or code_verifier missing *)
(* or empty gets 400 and makes no outbound call, whatever the credentials.  *)
C4_MissingFields ==
    \A r \in Reqs : LET f == handler[r] IN
        (IsExchange(f) /\ \E x \in {"code", "redirect_uri", "code_verifier"} :
                            f.body[x] \in {Undefined, ""}) =>
            /\ Responded(f)
            /\ f.trace = << >>
            /\ Len(f.responses) = 1
            /\ f.responses[1].status = 400

C4_Witness ==
    \E r \in Reqs : LET f == handler[r] IN
        /\ IsExchange(f)
        /\ f.body.code = "v" /\ f.body.redirect_uri = "v" /\ f.body.code_verifier = ""
        /\ ~CLIENT_SECRET
        /\ Responded(f)
        /\ f.responses[1].status = 400
        /\ \E q \in Reqs \ {r} : handler[q].pc = "token_body"

(* C5: with the client id or the client secret not configured, an exchange  *)
(* request that passes field validation gets the 500 configuration error     *)
(* and no call to the token endpoint is made.                               *)
(* Variant B of the handler has no such check.                              *)
C5_NoCallWithoutCredentials ==
    \A r \in Reqs : LET f == handler[r] IN
        (/\ IsExchange(f)
         /\ \A x \in {"code", "redirect_uri", "code_verifier"} :
                f.body[x] \notin {Undefined, ""}
         /\ ~(CLIENT_ID /\ CLIENT_SECRET)) =>
            /\ f.trace = << >>
            /\ Responded(f)
            /\ f.responses[1].status = 500
            /\ f.responses[1].body.error = "Server configuration error - missing credentials"

(* C6: the body of a successful exchange holds only access_token,           *)
(* token_type, expires_in and possibly scope, never a refresh token, and    *)
(* each field it holds is the upstream's.                                   *)
C6_NoRefreshToken ==
    \A r \in Reqs : LET f == handler[r] IN
        (IsExchange(f) /\ Responded(f) /\ f.responses[1].status = 200) =>
            LET up == f.data.obj
                out == f.responses[1].body
            IN  /\ DOMAIN out \subseteq {"access_token", "token_type", "expires_in", "scope"}
                /\ "refresh_token" \notin DOMAIN out
                /\ \A x \in DOMAIN out : x \in DOMAIN up /\ out[x] = up[x]
                /\ \A x \in {"access_token", "token_type", "expires_in"} :
                      x \in DOMAIN up => x \in DOMAIN out

C6_Witness ==
    \E r \in Reqs : LET f == handler[r] IN
        /\ IsExchange(f) /\ Responded(f) /\ f.responses[1].status = 200
        /\ "refresh_token" \in DOMAIN f.data.obj
        /\ "scope" \in DOMAIN f.data.obj
        /\ DOMAIN f.responses[1].body = {"access_token", "token_type", "expires_in", "scope"}

(* C7: an emote request makes exactly one upstream GET; a non-success       *)
(* status is passed on with a JSON error body; a success gives 200 with the *)
(* upstream content type (image/gif when there is none) and the one-hour    *)
(* public cache directive; a throw (of the fetch or of the read of the      *)
(* body) gives 500.                                                         *)
C7_EmoteRelay ==
    \A r \in Reqs : LET f == handler[r] IN
        IsEmote(f) =>
            /\ Calls(f) = {1}
            /\ f.trace[1] = CallEv("emote", 0)
            /\ Responded(f) =>
                  /\ f.trace = << CallEv("emote", 0), DoneEv("emote", 0) >>
                  /\ Len(f.responses) = 1
                  /\ LET rsp == f.responses[1] IN
                     /\ f.response.kind = "notok" =>
                            /\ rsp.status = f.response.status
                            /\ rsp.kind = "error"
                            /\ rsp.contentType = JSON_TYPE
                     /\ (f.response.kind = "ok" /\ f.data.read = "ok") =>
                            /\ rsp.status = 200
                            /\ rsp.contentType =
                                  (IF f.response.ctype \in {Null, ""} THEN "image/gif"
                                   ELSE f.response.ctype)
                            /\ rsp.cacheControl = "public, max-age=3600"
                     /\ (f.response.kind = "throw"
                            \/ (f.response.kind = "ok" /\ f.data.read = "throw")) =>
                            rsp.status = 500

C7_Witness ==
    \E r \in Reqs : LET f == handler[r] IN
        /\ IsEmote(f) /\ Responded(f)
        /\ f.response.kind = "ok" /\ f.response.ctype = Null /\ f.data.read = "ok"
        /\ f.responses[1].status = 200
        /\ f.responses[1].contentType = "image/gif"
        /\ \E q \in Reqs \ {r} : IsEmote(handler[q]) /\ handler[q].pc = "emote_body"

(* C8: the channel-info lookup and the normalization happen only when the   *)
(* first endpoint was accepted with a non-empty array under data; an        *)
(* accepted response of any other candidate, whatever its payload, is       *)
(* returned unmodified with 200 and without a channel-info lookup.          *)
C8_ShapeByEndpoint ==
    \A r \in Reqs : LET f == handler[r] IN
        IsUserLookup(f) =>
            /\ ChannelCalls(f) # {} =>
                  /\ SubSeq(f.trace, 1, 3) =
                        << CallEv("user", 1), DoneEv("user", 1), CallEv("channel", 0) >>
                  /\ \A k \in Candidates \ {1} : CallsOf(f, k) = {}
            /\ f.pc = "channel_fetch" =>
                  Accepted(f.response, f.data) /\ f.data.shape = "arrUser"
            /\ (Responded(f) /\ f.responses[1].kind = "user_norm") => ChannelCalls(f) # {}
            /\ \A k \in Candidates \ {1} :
                  (f.trace # << >> /\ LastEv(f) = DoneEv("user", k)
                        /\ Accepted(f.response, f.data)) =>
                      /\ ChannelCalls(f) = {}
                      /\ Responded(f)
                      /\ Len(f.responses) = 1
                      /\ f.responses[1].status = 200
                      /\ f.responses[1].kind = "user_raw"
                      /\ f.responses[1].body.shape = f.data.shape
                      /\ f.responses[1].body.obj = f.data.obj

C8_Witness ==
    \E r \in Reqs : LET f == handler[r] IN
        /\ IsUserLookup(f) /\ Responded(f)
        /\ f.trace # << >>
        /\ LastEv(f) = DoneEv("user", 2)
        /\ Accepted(f.response, f.data)
        /\ f.data.shape = "arrUser"
        /\ f.responses[1].kind = "user_raw"
        /\ ChannelCalls(f) = {}

(* C9: in every normalized profile chatroom.id is present and is the        *)
(* identifier taken from the channel-info response or null.                 *)
(* The code leaves id out when a successful channel-info body has no        *)
(* chatroom id.                                                             *)
C9_ChatroomIdOrNull ==
    \A r \in Reqs : LET f == handler[r] IN
        (IsUserLookup(f) /\ Responded(f) /\ f.responses[1].kind = "user_norm") =>
            /\ "chatroom" \in DOMAIN f.responses[1].body
            /\ "id" \in DOMAIN f.responses[1].body.chatroom
            /\ f.responses[1].body.chatroom.id \in ChatroomIds \cup {Null}

(* C10: every request gets exactly one response (never none, never two),    *)
(* given that outbound calls complete; the user lookup calls each candidate *)
(* at most once and issues at most one channel-info lookup.                 *)
C10_ExactlyOneResponse ==
    \A r \in Reqs :
        /\ [](Len(handler[r].responses) <= 1)
        /\ [](Len(handler[r].responses) = 1 <=> Responded(handler[r]))
        /\ [](\A k \in Candidates : Cardinality(CallsOf(handler[r], k)) <= 1)
        /\ [](Cardinality(ChannelCalls(handler[r])) <= 1)
        /\ [](\A j \in Calls(handler[r]) :
                handler[r].trace[j].target = "user" => handler[r].trace[j].k \in Candidates)
        /\ (handler[r].pc # "idle") ~> (Len(handler[r].responses) = 1)

C10_Witness ==
    \E r \in Reqs : LET f == handler[r] IN
        /\ IsUserLookup(f) /\ Responded(f)
        /\ \A k \in Candidates : Cardinality(CallsOf(f, k)) = 1
        /\ Len(f.responses) = 1
        /\ \E q \in Reqs \ {r} : InFlight(handler[q])

=============================================================================
